---- MODULE Spec2Model ----
(***************************************************************************)
(* A model of the three book-assembly scripts of the repository:           *)
(*   combine.py  (Collector)  combine_markdown_files                       *)
(*   count.py    (Estimator)  count_words_in_markdown, estimate_pages      *)
(*   makebook.py (Renderer)   get_chapter_files, markdown_to_html,         *)
(*                            create_pdf, main                             *)
(* Text is a sequence of one-character strings, so that substring tests,   *)
(* regular-expression substitutions and sort keys are computed character   *)
(* by character as the Python code computes them.                          *)
(***************************************************************************)
EXTENDS Integers, Sequences, FiniteSets, TLC

VARIABLES
    script,         \* the script that is run: combine, count or makebook
    argv,           \* Renderer: sys.argv
    dir,            \* the chapter directory: entry name -> the file's bytes, or Subdir
    listing,        \* the order in which the OS returns the directory's entries
    pc,             \* position of the running script
    md_files,       \* the script's list of chapter file names
    i,              \* loop index (enumerate)
    outfile,        \* Collector: the output file, NoFile or its bytes
    printed,        \* console output, one record per print call
    summary,        \* Collector: file size, lines and words of the summary
    total_words,    \* Estimator: total_words
    chapter_stats,  \* Estimator: chapter_stats
    chapters_html,  \* Renderer: chapters_html
    pdf,            \* Renderer: the PDF file, NoFile or what the engine was given
    engine_calls,   \* Renderer: number of calls of the PDF engine
    exit_code       \* the process's exit status, NoExit while it runs

vars == <<script, argv, dir, listing, pc, md_files, i, outfile, printed, summary,
          total_words, chapter_stats, chapters_html, pdf, engine_calls, exit_code>>

(***************************************************************************)
(* Bounds of the model.                                                    *)
(***************************************************************************)
\* entries in the chapter directory
MaxFiles == 2
\* words in a run of prose words
MaxWords == 2

(***************************************************************************)
(* Characters and strings.                                                 *)
(***************************************************************************)
\* the grave accent U+0060 (a TLA+ string cannot hold it): the one character
\* of the model that is not written as itself
BQ == "GRAVE"

AsciiPrintable ==
    <<" ", "!", "\"", "#", "$", "%", "&", "'", "(", ")", "*", "+", ",", "-",
      ".", "/", "0", "1", "2", "3", "4", "5", "6", "7", "8", "9", ":", ";",
      "<", "=", ">", "?", "@", "A", "B", "C", "D", "E", "F", "G", "H", "I",
      "J", "K", "L", "M", "N", "O", "P", "Q", "R", "S", "T", "U", "V", "W",
      "X", "Y", "Z", "[", "\\", "]", "^", "_", BQ, "a", "b", "c", "d", "e",
      "f", "g", "h", "i", "j", "k", "l", "m", "n", "o", "p", "q", "r", "s",
      "t", "u", "v", "w", "x", "y", "z", "{", "|", "}", "~">>

\* ord(c): the code point Python compares characters by
Ord(c) ==
    CASE c = "\t" -> 9
      [] c = "\n" -> 10
      [] c = "\r" -> 13
      [] OTHER -> 31 + CHOOSE k \in 1..Len(AsciiPrintable) : AsciiPrintable[k] = c

RECURSIVE StrLess(_, _)
\* a < b for two Python strings: code point by code point, a proper prefix first
StrLess(a, b) ==
    IF b = <<>> THEN FALSE
    ELSE IF a = <<>> THEN TRUE
    ELSE IF a[1] = b[1] THEN StrLess(Tail(a), Tail(b))
    ELSE Ord(a[1]) < Ord(b[1])

\* s.endswith(p)
EndsWith(s, p) ==
    /\ Len(p) <= Len(s)
    /\ SubSeq(s, Len(s) - Len(p) + 1, Len(s)) = p

\* str.isspace() on one character (what str.split() splits at)
IsSpace(c) == c \in {" ", "\t", "\n", "\r"}

RECURSIVE SplitCount(_, _)
\* len(s.split()): the number of maximal runs of non-whitespace characters;
\* inword tells whether the previous character was part of a word
SplitCount(s, inword) ==
    IF s = <<>> THEN 0
    ELSE IF IsSpace(s[1]) THEN SplitCount(Tail(s), FALSE)
    ELSE (IF inword THEN 0 ELSE 1) + SplitCount(Tail(s), TRUE)

\* os.linesep of the platform the scripts run on (POSIX)
LineSep == <<"\n">>

RECURSIVE TextRead(_)
\* open(path, 'r').read(): universal newlines, CR LF and a lone CR become LF
TextRead(b) ==
    IF b = <<>> THEN <<>>
    ELSE IF b[1] = "\r"
         THEN <<"\n">> \o TextRead(IF Len(b) >= 2 /\ b[2] = "\n"
                                   THEN SubSeq(b, 3, Len(b))
                                   ELSE Tail(b))
         ELSE <<b[1]>> \o TextRead(Tail(b))

RECURSIVE TextWrite(_)
\* file.write(text) on a file opened with 'w': LF is written as os.linesep
TextWrite(t) ==
    IF t = <<>> THEN <<>>
    ELSE (IF t[1] = "\n" THEN LineSep ELSE <<t[1]>>) \o TextWrite(Tail(t))


(***************************************************************************)
(* The chapter directory.                                                  *)
(***************************************************************************)
\* a path at which there is no file (a text never holds such an element)
NoFile == <<"NoFile">>
\* a directory entry that is itself a directory: open() on it raises
Subdir == <<"Subdir">>
\* the exit status of a process that still runs
NoExit == -1

MdSuffix == <<".", "m", "d">>
MarkdownSuffix == <<".", "m", "a", "r", "k", "d", "o", "w", "n">>
TxtSuffix == <<".", "t", "x", "t">>

RECURSIVE FilterSuffix(_, _)
\* the entries of a listing whose names end with suffix, in listing order
FilterSuffix(names, suffix) ==
    IF names = <<>> THEN <<>>
    ELSE (IF EndsWith(names[1], suffix) THEN <<names[1]>> ELSE <<>>)
         \o FilterSuffix(Tail(names), suffix)

\* a listing of every entry, whatever its name
GlobAll(lst, suffix) == lst

\* list(Path(directory).glob('*' + suffix)): the matching entries, in the
\* order lst in which the OS returns the directory's entries
Glob(lst, suffix) == FilterSuffix(lst, suffix)

RECURSIVE InsertByName(_, _)
\* insert x into the sorted list s, before the first element greater than it
InsertByName(x, s) ==
    IF s = <<>> THEN <<x>>
    ELSE IF StrLess(x, s[1]) THEN <<x>> \o s
    ELSE <<s[1]>> \o InsertByName(x, Tail(s))

RECURSIVE SortedPaths(_)
\* sorted(paths): Path objects of one directory compare by their names
SortedPaths(s) ==
    IF s = <<>> THEN <<>>
    ELSE InsertByName(s[Len(s)], SortedPaths(SubSeq(s, 1, Len(s) - 1)))

\* all orders in which the entries S can be listed
Listings(S) ==
    {p \in [1..Cardinality(S) -> S] :
        \A a, b \in 1..Cardinality(S) : p[a] = p[b] => a = b}

\* the directories of at most MaxFiles entries with names from Names; a
\* chapter file holds one of Contents, any other file a fixed text
Directories(Names, Contents) ==
    UNION { {d \in [S -> Contents \cup {<<"x">>}] :
                \A n \in S : IF EndsWith(n, TxtSuffix)
                             THEN d[n] = <<"x">>
                             ELSE d[n] \in Contents}
            : S \in {T \in SUBSET Names : Cardinality(T) <= MaxFiles} }

(***************************************************************************)
(* Collector: combine.py                                                   *)
(***************************************************************************)
\* separator='\n\n---\n\n', the default and the configured chapter_separator
separator == <<"\n", "\n", "-", "-", "-", "\n", "\n">>

\* the header line and the blank line written before a chapter
ChapterHeader(name) == <<"#", " ">> \o name \o <<"\n", "\n">>

RECURSIVE CountChar(_, _)
CountChar(s, c) ==
    IF s = <<>> THEN 0
    ELSE (IF s[1] = c THEN 1 ELSE 0) + CountChar(Tail(s), c)

\* len(f.readlines()) of a text: one line per LF, plus an unterminated last line
LineCount(t) ==
    CountChar(t, "\n") + (IF t # <<>> /\ t[Len(t)] # "\n" THEN 1 ELSE 0)

\* the loop body with the separator written after every chapter
ChapterTextSeparatorAfterEach(k, files) ==
    ChapterHeader(files[k]) \o TextRead(dir[files[k]]) \o separator

\* what one iteration of the loop writes for the k-th file (1-based): the
\* header, the content as read, and the separator unless the file is the last
ChapterText(k, files) ==
    ChapterHeader(files[k]) \o TextRead(dir[files[k]])
        \o (IF k < Len(files) THEN separator ELSE <<>>)

CollectorNames ==
    { <<"a", ".", "m", "d">>, <<"b", "_", "1", ".", "m", "d">>,
      <<"B", "2", ".", "m", "d">>, <<"n", ".", "t", "x", "t">> }

CollectorContents ==
    { <<>>,
      <<"H", "i", " ", "y", "o", "u", "\n">>,
      <<"a", "\r", "\n", "b">>,
      <<"-", "-", "-">>,
      <<"x", "\n", "\n", "-", "-", "-", "\n", "\n", "y">>,
      <<"#", " ", "a", ".", "m", "d", "\n", "\n">>,
      Subdir }

\* what no script touches: the other scripts' variables
IdleEstimator == total_words = 0 /\ chapter_stats = <<>>
IdleRenderer ==
    /\ argv = <<>>
    /\ chapters_html = <<>>
    /\ pdf = NoFile
    /\ engine_calls = 0
IdleCollector == outfile = NoFile /\ summary = <<>>

CollectorInit ==
    /\ script = "combine"
    /\ dir \in Directories(CollectorNames, CollectorContents)
    /\ listing \in Listings(DOMAIN dir)
    /\ pc = "start"
    /\ md_files = <<>>
    /\ i = 0
    /\ outfile \in {NoFile, <<"o", "l", "d">>}
    /\ printed = <<>>
    /\ summary = <<>>
    /\ exit_code = NoExit
    /\ IdleEstimator
    /\ IdleRenderer

\* lines 13-25: list and sort the files; return early when there are none,
\* otherwise open (create or truncate) the output file
CombineStart ==
    /\ script = "combine"
    /\ pc = "start"
    /\ md_files' = SortedPaths(Glob(listing, MdSuffix))
    /\ IF md_files' = <<>>
       THEN /\ printed' = Append(printed, [msg |-> "No .md files found"])
            /\ pc' = "returned"
            /\ exit_code' = 0
            /\ UNCHANGED <<outfile, i>>
       ELSE /\ printed' = printed
                 \o <<[msg |-> "Found", n |-> Len(md_files')]>>
                 \o [k \in 1..Len(md_files') |-> [msg |-> "-", name |-> md_files'[k]]]
                 \o <<[msg |-> "Combining"]>>
            /\ outfile' = <<>>
            /\ i' = 0
            /\ pc' = "loop"
            /\ UNCHANGED exit_code
    /\ UNCHANGED <<script, argv, dir, listing, summary, total_words, chapter_stats,
                   chapters_html, pdf, engine_calls>>

\* lines 26-39: one iteration of the loop (i is enumerate's 0-based index)
CombineWriteChapter ==
    /\ script = "combine"
    /\ pc = "loop"
    /\ i < Len(md_files)
    /\ dir[md_files[i + 1]] # Subdir
    /\ outfile' = outfile \o TextWrite(ChapterText(i + 1, md_files))
    /\ i' = i + 1
    /\ UNCHANGED <<script, argv, dir, listing, pc, md_files, printed, summary,
                   total_words, chapter_stats, chapters_html, pdf, engine_calls,
                   exit_code>>

\* line 28: open() of an entry that cannot be read raises; nothing handles it,
\* the with block closes the output file with what was written so far
CombineReadError ==
    /\ script = "combine"
    /\ pc = "loop"
    /\ i < Len(md_files)
    /\ dir[md_files[i + 1]] = Subdir
    /\ pc' = "raised"
    /\ exit_code' = 1
    /\ UNCHANGED <<script, argv, dir, listing, md_files, i, outfile, printed,
                   summary, total_words, chapter_stats, chapters_html, pdf,
                   engine_calls>>

\* lines 41-55: the file is closed; size, line and word counts are printed
CombineSummary ==
    /\ script = "combine"
    /\ pc = "loop"
    /\ i = Len(md_files)
    /\ summary' = [file_size |-> Len(outfile),
                   lines |-> LineCount(TextRead(outfile)),
                   words |-> SplitCount(TextRead(outfile), FALSE)]
    /\ printed' = printed \o <<[msg |-> "Successfully combined", n |-> Len(md_files)],
                               [msg |-> "Output file"],
                               [msg |-> "File size", n |-> summary'.file_size],
                               [msg |-> "Total lines", n |-> summary'.lines],
                               [msg |-> "Total words", n |-> summary'.words]>>
    /\ pc' = "returned"
    /\ exit_code' = 0
    /\ UNCHANGED <<script, argv, dir, listing, md_files, i, outfile, total_words,
                   chapter_stats, chapters_html, pdf, engine_calls>>

(***************************************************************************)
(* Estimator: count.py                                                     *)
(***************************************************************************)
\* words_per_page=250
words_per_page == 250

\* p stands in s at position k
MatchLit(s, k, p) ==
    /\ k >= 1
    /\ k + Len(p) - 1 <= Len(s)
    /\ \A j \in 1..Len(p) : s[k + j - 1] = p[j]

RECURSIVE FindLit(_, _, _)
\* the first position at or after k at which p stands in s, 0 when there is none
FindLit(s, k, p) ==
    IF k + Len(p) - 1 > Len(s) THEN 0
    ELSE IF MatchLit(s, k, p) THEN k
    ELSE FindLit(s, k + 1, p)

RECURSIVE RunEnd(_, _, _)
\* the last position of the longest run, starting at k, of characters that
\* are not in Excl (a negated class under + or *); k - 1 when the run is empty
RunEnd(s, k, Excl) ==
    IF k > Len(s) \/ s[k] \in Excl THEN k - 1
    ELSE RunEnd(s, k + 1, Excl)

RECURSIVE HashRunEnd(_, _)
\* the last position of the run of '#' starting at k; k - 1 when it is empty
HashRunEnd(s, k) ==
    IF k > Len(s) \/ s[k] # "#" THEN k - 1
    ELSE HashRunEnd(s, k + 1)

\* a match of a pattern at a position: next is the position after the match
\* (0: no match there), repl what re.sub puts in its place
NoMatch == [next |-> 0, repl |-> <<>>]

Fence == <<BQ, BQ, BQ>>

\* r'```.*?```' with DOTALL, replaced by '': up to the first closing fence
MatchFence(s, k) ==
    IF MatchLit(s, k, Fence) /\ FindLit(s, k + 3, Fence) # 0
    THEN [next |-> FindLit(s, k + 3, Fence) + 3, repl |-> <<>>]
    ELSE NoMatch

\* r'`[^`]+`', replaced by ''
MatchInlineCode(s, k) ==
    LET e == RunEnd(s, k + 1, {BQ})
    IN  IF MatchLit(s, k, <<BQ>>) /\ e >= k + 1 /\ MatchLit(s, e + 1, <<BQ>>)
        THEN [next |-> e + 2, repl |-> <<>>]
        ELSE NoMatch

FrontMatterOpen == <<"-", "-", "-", "\n">>
FrontMatterClose == <<"\n", "-", "-", "-", "\n">>

\* re.sub(r'^---\n.*?\n---\n', '', content, flags=re.DOTALL): without
\* MULTILINE the pattern matches at the start of the content only
StripFrontMatter(s) ==
    IF MatchLit(s, 1, FrontMatterOpen) /\ FindLit(s, 5, FrontMatterClose) # 0
    THEN SubSeq(s, FindLit(s, 5, FrontMatterClose) + 5, Len(s))
    ELSE s

\* \s of the re module on one character
IsReSpace(c) == c \in {" ", "\t", "\n", "\r"}

\* r'#+\s', replaced by ''
MatchHeader(s, k) ==
    LET e == HashRunEnd(s, k)
    IN  IF e >= k /\ e + 1 <= Len(s) /\ IsReSpace(s[e + 1])
        THEN [next |-> e + 2, repl |-> <<>>]
        ELSE NoMatch

\* an emphasis pattern whose replacement drops the text between the markers
MatchEmphasisDropText(s, k, delim) ==
    LET a == k + Len(delim)
        e == RunEnd(s, a, {delim[1]})
    IN  IF MatchLit(s, k, delim) /\ e >= a /\ MatchLit(s, e + 1, delim)
        THEN [next |-> e + 1 + Len(delim), repl |-> <<>>]
        ELSE NoMatch

\* the emphasis patterns r'\*\*([^*]+)\*\*', r'\*([^*]+)\*', r'__([^_]+)__' and
\* r'_([^_]+)_', replaced by r'\1': delim is the marker, its character the
\* one the group excludes
MatchEmphasis(s, k, delim) ==
    LET a == k + Len(delim)
        e == RunEnd(s, a, {delim[1]})
    IN  IF MatchLit(s, k, delim) /\ e >= a /\ MatchLit(s, e + 1, delim)
        THEN [next |-> e + 1 + Len(delim), repl |-> SubSeq(s, a, e)]
        ELSE NoMatch

\* r'\[([^\]]+)\]\([^\)]+\)', replaced by r'\1'
MatchLink(s, k) ==
    LET e1 == RunEnd(s, k + 1, {"]"})
        e2 == RunEnd(s, e1 + 3, {")"})
    IN  IF /\ MatchLit(s, k, <<"[">>)
           /\ e1 >= k + 1
           /\ MatchLit(s, e1 + 1, <<"]", "(">>)
           /\ e2 >= e1 + 3
           /\ MatchLit(s, e2 + 1, <<")">>)
        THEN [next |-> e2 + 2, repl |-> SubSeq(s, k + 1, e1)]
        ELSE NoMatch

\* r'!\[([^\]]*)\]\([^\)]+\)', replaced by ''
MatchImage(s, k) ==
    LET e1 == RunEnd(s, k + 2, {"]"})
        e2 == RunEnd(s, e1 + 3, {")"})
    IN  IF /\ MatchLit(s, k, <<"!", "[">>)
           /\ MatchLit(s, e1 + 1, <<"]", "(">>)
           /\ e2 >= e1 + 3
           /\ MatchLit(s, e2 + 1, <<")">>)
        THEN [next |-> e2 + 2, repl |-> <<>>]
        ELSE NoMatch

\* the match of the pattern named re at position k of s
Match(re, s, k) ==
    CASE re = "fence" -> MatchFence(s, k)
      [] re = "code" -> MatchInlineCode(s, k)
      [] re = "header" -> MatchHeader(s, k)
      [] re = "bold*" -> MatchEmphasis(s, k, <<"*", "*">>)
      [] re = "italic*" -> MatchEmphasis(s, k, <<"*">>)
      [] re = "bold_" -> MatchEmphasis(s, k, <<"_", "_">>)
      [] re = "italic_" -> MatchEmphasis(s, k, <<"_">>)
      [] re = "link" -> MatchLink(s, k)
      [] re = "image" -> MatchImage(s, k)

RECURSIVE Sub(_, _, _)
\* re.sub(pattern, repl, s) from position k on: the leftmost match is
\* replaced and the scan goes on after it; an unmatched character is kept
Sub(re, s, k) ==
    IF k > Len(s) THEN <<>>
    ELSE LET m == Match(re, s, k)
         IN  IF m.next = 0 THEN <<s[k]>> \o Sub(re, s, k + 1)
             ELSE m.repl \o Sub(re, s, m.next)

\* lines 10-24: the substitutions, in the order of the code
StripMarkdown(content) ==
    LET c1 == Sub("fence", content, 1)
        c2 == Sub("code", c1, 1)
        c3 == StripFrontMatter(c2)
        c4 == Sub("header", c3, 1)
        c5 == Sub("bold*", c4, 1)
        c6 == Sub("italic*", c5, 1)
        c7 == Sub("bold_", c6, 1)
        c8 == Sub("italic_", c7, 1)
        c9 == Sub("link", c8, 1)
    IN  Sub("image", c9, 1)

\* count_words_in_markdown on a file holding bytes
count_words_in_markdown(bytes) == SplitCount(StripMarkdown(TextRead(bytes)), FALSE)

\* format(x, '.1f') of num/den, in tenths: the nearest tenth, a tie to even
Tenths(num, den) ==
    LET q == (10 * num) \div den
        r == (10 * num) % den
    IN  IF 2 * r > den \/ (2 * r = den /\ q % 2 = 1) THEN q + 1 ELSE q

\* format(x, '.0f') of num/den: the nearest integer, a tie to even
Rounded(num, den) ==
    LET q == num \div den
        r == num % den
    IN  IF 2 * r > den \/ (2 * r = den /\ q % 2 = 1) THEN q + 1 ELSE q

\* prose words, and the run of the first n of them (taken round and round)
ProseWords == << <<"a", "b">>, <<"I", "'", "m">>, <<"x", ",">> >>
ProseWord == ProseWords[1]
ProseWordAt(k) == ProseWords[((k - 1) % Len(ProseWords)) + 1]

RECURSIVE ProseRun(_)
ProseRun(n) ==
    IF n = 1 THEN ProseWordAt(1)
    ELSE ProseRun(n - 1) \o <<" ">> \o ProseWordAt(n)

EmphasisMarkers == { <<"*", "*">>, <<"*">>, <<"_", "_">>, <<"_">> }

\* text wrapped in an emphasis marker
Emphasised(marker, text) == marker \o text \o marker
\* [text](u)
LinkTo(text) == <<"[">> \o text \o <<"]", "(", "u", ")">>
\* ![alt](u)
ImageOf(alt) == <<"!">> \o LinkTo(alt)

FencedCodeOnly == Fence \o <<"\n", "x", " ", "y", "\n">> \o Fence \o <<"\n">>
FrontMatterThenProse ==
    FrontMatterOpen \o <<"t", ":", " ", "v">> \o FrontMatterClose \o ProseWord
HeadingThenProse == <<"#", "#", " ", "H", "i", "\n">> \o ProseWord

EstimatorNames ==
    { <<"a", ".", "m", "d">>, <<"b", ".", "m", "d">>, <<"n", ".", "t", "x", "t">> }

EstimatorContents ==
    UNION { {ProseRun(n), LinkTo(ProseRun(n)), ImageOf(ProseRun(n))}
              \cup {Emphasised(m, ProseRun(n)) : m \in EmphasisMarkers}
            : n \in 1..MaxWords }
    \cup { ImageOf(<<>>), FencedCodeOnly, FrontMatterThenProse, HeadingThenProse,
           Subdir }

EstimatorInit ==
    /\ script = "count"
    /\ dir \in Directories(EstimatorNames, EstimatorContents)
    /\ listing \in Listings(DOMAIN dir)
    /\ pc = "start"
    /\ md_files = <<>>
    /\ i = 0
    /\ printed = <<>>
    /\ total_words = 0
    /\ chapter_stats = <<>>
    /\ exit_code = NoExit
    /\ IdleCollector
    /\ IdleRenderer

\* lines 39-50: list and sort the files; return early when there are none,
\* otherwise print the table's head
EstimateStart ==
    /\ script = "count"
    /\ pc = "start"
    /\ md_files' = SortedPaths(Glob(listing, MdSuffix))
    /\ IF md_files' = <<>>
       THEN /\ printed' = Append(printed, [msg |-> "No .md files found"])
            /\ pc' = "returned"
            /\ exit_code' = 0
       ELSE /\ printed' = printed \o <<[msg |-> "Analyzing", n |-> Len(md_files')],
                                       [msg |-> "table head"],
                                       [msg |-> "rule"]>>
            /\ pc' = "loop"
            /\ UNCHANGED exit_code
    /\ total_words' = 0
    /\ chapter_stats' = <<>>
    /\ i' = 0
    /\ UNCHANGED <<script, argv, dir, listing, outfile, summary, chapters_html,
                   pdf, engine_calls>>

\* lines 52-57: one iteration of the loop, for the file after the i counted
EstimateCountFile ==
    /\ script = "count"
    /\ pc = "loop"
    /\ i < Len(md_files)
    /\ dir[md_files[i + 1]] # Subdir
    /\ LET word_count == count_words_in_markdown(dir[md_files[i + 1]])
           pages == [num |-> word_count, den |-> words_per_page]
       IN  /\ total_words' = total_words + word_count
           /\ chapter_stats' = Append(chapter_stats,
                                      <<md_files[i + 1], word_count, pages>>)
           /\ printed' = Append(printed,
                                [msg |-> "row", name |-> md_files[i + 1],
                                 words |-> word_count,
                                 pages |-> Tenths(word_count, words_per_page)])
    /\ i' = i + 1
    /\ UNCHANGED <<script, argv, dir, listing, pc, md_files, outfile, summary,
                   chapters_html, pdf, engine_calls, exit_code>>

\* line 7: open() of an entry that cannot be read raises; nothing handles it
EstimateReadError ==
    /\ script = "count"
    /\ pc = "loop"
    /\ i < Len(md_files)
    /\ dir[md_files[i + 1]] = Subdir
    /\ pc' = "raised"
    /\ exit_code' = 1
    /\ UNCHANGED <<script, argv, dir, listing, md_files, i, outfile, printed,
                   summary, total_words, chapter_stats, chapters_html, pdf,
                   engine_calls>>

\* lines 59-69: the totals row and the closing estimate
EstimateTotals ==
    /\ script = "count"
    /\ pc = "loop"
    /\ i = Len(md_files)
    /\ printed' = printed \o
         <<[msg |-> "rule"],
           [msg |-> "TOTAL", words |-> total_words,
            pages |-> Tenths(total_words, words_per_page)],
           [msg |-> "Estimated book length",
            pages |-> Rounded(total_words, words_per_page)],
           [msg |-> "Total word count", words |-> total_words],
           [msg |-> "Assumptions", n |-> words_per_page],
           [msg |-> "Note"]>>
    /\ pc' = "returned"
    /\ exit_code' = 0
    /\ UNCHANGED <<script, argv, dir, listing, md_files, i, outfile, summary,
                   total_words, chapter_stats, chapters_html, pdf, engine_calls>>

(***************************************************************************)
(* Renderer: makebook.py                                                   *)
(***************************************************************************)
Digits == <<"0", "1", "2", "3", "4", "5", "6", "7", "8", "9">>
UpperLetters ==
    <<"A", "B", "C", "D", "E", "F", "G", "H", "I", "J", "K", "L", "M", "N", "O",
      "P", "Q", "R", "S", "T", "U", "V", "W", "X", "Y", "Z">>
LowerLetters ==
    <<"a", "b", "c", "d", "e", "f", "g", "h", "i", "j", "k", "l", "m", "n", "o",
      "p", "q", "r", "s", "t", "u", "v", "w", "x", "y", "z">>

\* the elements of a sequence
Range(s) == {s[k] : k \in 1..Len(s)}
\* the position of x in the sequence s that holds it
IndexIn(s, x) == CHOOSE k \in 1..Len(s) : s[k] = x

IsDigit(c) == c \in Range(Digits)
\* one character of str.lower() and of str.upper()
LowerChar(c) == IF c \in Range(UpperLetters) THEN LowerLetters[IndexIn(UpperLetters, c)] ELSE c
UpperChar(c) == IF c \in Range(LowerLetters) THEN UpperLetters[IndexIn(LowerLetters, c)] ELSE c
IsCased(c) == c \in Range(UpperLetters) \cup Range(LowerLetters)

\* p.lower()
Lower(s) == [k \in 1..Len(s) |-> LowerChar(s[k])]

RECURSIVE IntOf(_, _)
\* int(p) of a run of digits, acc the value of the digits read so far
IntOf(p, acc) ==
    IF p = <<>> THEN acc
    ELSE IntOf(Tail(p), 10 * acc + (IndexIn(Digits, p[1]) - 1))

RECURSIVE StrOf(_)
\* str(n) of an integer n >= 0
StrOf(n) ==
    IF n < 10 THEN <<Digits[n + 1]>>
    ELSE StrOf(n \div 10) \o <<Digits[(n % 10) + 1]>>

RECURSIVE LastIndexOf(_, _, _)
\* s.rfind(c) as a 1-based position at or before k, 0 when there is none
LastIndexOf(s, c, k) ==
    IF k = 0 THEN 0
    ELSE IF s[k] = c THEN k
    ELSE LastIndexOf(s, c, k - 1)

\* Path.stem: the name without its last suffix; a dot that starts or ends the
\* name starts no suffix
Stem(name) ==
    LET d == LastIndexOf(name, ".", Len(name))
    IN  IF 1 < d /\ d < Len(name) THEN SubSeq(name, 1, d - 1) ELSE name

RECURSIVE DigitRunEnd(_, _)
\* the last position of the run of digits starting at k; k - 1 when it is empty
DigitRunEnd(s, k) ==
    IF k > Len(s) \/ ~IsDigit(s[k]) THEN k - 1
    ELSE DigitRunEnd(s, k + 1)

RECURSIVE TextRunEnd(_, _)
\* the last position of the run of non-digits starting at k
TextRunEnd(s, k) ==
    IF k > Len(s) \/ IsDigit(s[k]) THEN k - 1
    ELSE TextRunEnd(s, k + 1)

RECURSIVE SplitDigitRuns(_)
\* re.split(r'(\d+)', stem): the text before each run of digits, the run, and
\* at the end the text after the last run; a text may be empty
SplitDigitRuns(s) ==
    LET t == TextRunEnd(s, 1)
        d == DigitRunEnd(s, t + 1)
    IN  IF t = Len(s) THEN <<s>>
        ELSE <<SubSeq(s, 1, t), SubSeq(s, t + 1, d)>>
             \o SplitDigitRuns(SubSeq(s, d + 1, Len(s)))

\* p.isdigit()
IsDigitStr(p) == p # <<>> /\ \A k \in 1..Len(p) : IsDigit(p[k])

\* a key that compares the digit runs as the strings they are
NaturalSortKeyDigitsAsText(name) ==
    LET parts == SplitDigitRuns(Stem(name))
    IN  [k \in 1..Len(parts) |-> [int |-> FALSE, val |-> Lower(parts[k])]]

\* natural_sort_key: [int(p) if p.isdigit() else p.lower() for p in parts]
NaturalSortKey(name) ==
    LET parts == SplitDigitRuns(Stem(name))
    IN  [k \in 1..Len(parts) |->
            IF IsDigitStr(parts[k])
            THEN [int |-> TRUE, val |-> IntOf(parts[k], 0)]
            ELSE [int |-> FALSE, val |-> Lower(parts[k])]]

RECURSIVE KeyLess(_, _)
\* a < b for two keys, as Python compares lists: by the first elements that
\* differ, a proper prefix first.  The parts of a key alternate text, number,
\* text, ..., so the elements compared are both numbers or both texts.
KeyLess(a, b) ==
    IF b = <<>> THEN FALSE
    ELSE IF a = <<>> THEN TRUE
    ELSE IF a[1].int /\ b[1].int
         THEN IF a[1].val = b[1].val THEN KeyLess(Tail(a), Tail(b))
              ELSE a[1].val < b[1].val
         ELSE IF a[1].val = b[1].val THEN KeyLess(Tail(a), Tail(b))
              ELSE StrLess(a[1].val, b[1].val)

RECURSIVE InsertByKey(_, _)
\* insert x into the list s sorted by key, after the elements that are not
\* greater than it: the sort is stable
InsertByKey(x, s) ==
    IF s = <<>> THEN <<x>>
    ELSE IF KeyLess(NaturalSortKey(x), NaturalSortKey(s[1])) THEN <<x>> \o s
    ELSE <<s[1]>> \o InsertByKey(x, Tail(s))

RECURSIVE SortedByKey(_)
\* sorted(md_files, key=natural_sort_key)
SortedByKey(s) ==
    IF s = <<>> THEN <<>>
    ELSE InsertByKey(s[Len(s)], SortedByKey(SubSeq(s, 1, Len(s) - 1)))

\* get_chapter_files, lst the order in which the OS lists the directory
get_chapter_files(lst) ==
    SortedByKey(Glob(lst, MdSuffix) \o Glob(lst, MarkdownSuffix))

\* s.replace('_', ' ').replace('-', ' ')
SeparatorsToSpaces(s) ==
    [k \in 1..Len(s) |-> IF s[k] \in {"_", "-"} THEN " " ELSE s[k]]

\* s.title(): a cased character is upper-cased after an uncased one (or at
\* the start) and lower-cased after a cased one
Title(s) ==
    [k \in 1..Len(s) |->
        IF k > 1 /\ IsCased(s[k - 1]) THEN LowerChar(s[k]) ELSE UpperChar(s[k])]

\* the chapter documents of the model
PlainDoc == <<"B", "y", "e", ".">>
HeadedDoc == <<"#", " ", "H", "i", "\n", "Y", "o", ".">>
AttrHeadedDoc == <<"#", " ", "H", "i", " ", "{", "#", "t", "}">>

H1Open == <<"<", "h", "1", ">">>
H1Close == <<"<", "/", "h", "1", ">">>

\* md.convert(content) of the markdown library with the extensions extra,
\* nl2br, sane_lists and smarty, on the documents of the model: a paragraph,
\* a top-level heading, and a top-level heading that the attribute list
\* '{#t}' (part of extra) gives an id
Convert(content) ==
    CASE content = HeadedDoc ->
             H1Open \o <<"H", "i">> \o H1Close
                 \o <<"\n", "<", "p", ">", "Y", "o", ".", "<", "/", "p", ">">>
      [] content = AttrHeadedDoc ->
             <<"<", "h", "1", " ", "i", "d", "=", "\"", "t", "\"", ">", "H", "i">>
                 \o H1Close
      [] OTHER -> <<"<", "p", ">">> \o content \o <<"<", "/", "p", ">">>

\* '<h1>' in html_content
HasH1Tag(html) == FindLit(html, 1, H1Open) # 0

\* f'<h1>Chapter {i}: {chapter_title}</h1>\n'
SynthesizedHeading(k, name) ==
    H1Open \o <<"C", "h", "a", "p", "t", "e", "r", " ">> \o StrOf(k) \o <<":", " ">>
        \o Title(SeparatorsToSpaces(Stem(name))) \o H1Close \o <<"\n">>

\* lines 173-182: the fragment of the k-th file (1-based, as enumerate(_, 1))
ChapterHtml(k, files) ==
    LET html_content == Convert(TextRead(dir[files[k]]))
    IN  IF ~HasH1Tag(html_content)
        THEN SynthesizedHeading(k, files[k]) \o html_content
        ELSE html_content

RECURSIVE JoinBlankLine(_)
\* '\n\n'.join(chapters_html)
JoinBlankLine(frags) ==
    IF frags = <<>> THEN <<>>
    ELSE IF Len(frags) = 1 THEN frags[1]
    ELSE frags[1] \o <<"\n", "\n">> \o JoinBlankLine(Tail(frags))

\* HTML_TEMPLATE.format(content=content_html); the head of the template (the
\* style sheet) is cut to its last line
HTML_TEMPLATE(content) ==
    <<"<", "b", "o", "d", "y", ">", "\n">> \o content
        \o <<"\n", "<", "/", "b", "o", "d", "y", ">", "\n",
             "<", "/", "h", "t", "m", "l", ">", "\n">>

PdfSuffix == <<".", "p", "d", "f">>

\* lines 236-237: the output path, made to end in '.pdf'
OutputPdf(path) == IF EndsWith(path, PdfSuffix) THEN path ELSE path \o PdfSuffix

\* the paths of the model: the chapter directory, a path at which there is
\* nothing, and a regular file
ChaptersPath == <<"c", "h">>
MissingPath == <<"n", "o">>
FilePath == <<"f", ".", "m", "d">>

\* every path taken for a directory
IsDirAlways(path) == TRUE

\* os.path.isdir(path)
IsDir(path) == path = ChaptersPath

Program == <<"m", "b">>

RendererArgvs ==
    { <<Program>>,
      <<Program, ChaptersPath>>,
      <<Program, MissingPath, <<"o", ".", "p", "d", "f">>>>,
      <<Program, FilePath, <<"o", ".", "p", "d", "f">>>>,
      <<Program, ChaptersPath, <<"o", ".", "p", "d", "f">>>>,
      <<Program, ChaptersPath, <<"o">>>> }

RendererNames ==
    { <<"c", "h", "1", ".", "m", "d">>,
      <<"c", "h", "0", "1", ".", "m", "d">>,
      <<"c", "h", "2", ".", "m", "d">>,
      <<"c", "h", "1", "0", ".", "m", "d">>,
      <<"C", "h", "3", ".", "m", "d">>,
      <<"0", "2", "-", "e", "n", "d", ".", "m", "d">>,
      <<"c", "h", "1", ".", "m", "a", "r", "k", "d", "o", "w", "n">>,
      <<"n", ".", "t", "x", "t">> }

RendererContents == {PlainDoc, HeadedDoc, AttrHeadedDoc, Subdir}

RendererInit ==
    /\ script = "makebook"
    /\ argv \in RendererArgvs
    /\ dir \in Directories(RendererNames, RendererContents)
    /\ listing \in Listings(DOMAIN dir)
    /\ pc = "start"
    /\ md_files = <<>>
    /\ i = 0
    /\ printed = <<>>
    /\ chapters_html = <<>>
    /\ pdf = NoFile
    /\ engine_calls = 0
    /\ exit_code = NoExit
    /\ IdleCollector
    /\ IdleEstimator

\* lines 224-227: fewer than two arguments
MainUsage ==
    /\ script = "makebook"
    /\ pc = "start"
    /\ Len(argv) < 3
    /\ printed' = printed \o <<[msg |-> "Usage"], [msg |-> "Example"]>>
    /\ pc' = "exited"
    /\ exit_code' = 1
    /\ UNCHANGED <<script, argv, dir, listing, md_files, i, outfile, summary,
                   total_words, chapter_stats, chapters_html, pdf, engine_calls>>

\* lines 229-234: the input path is no directory
MainNotADirectory ==
    /\ script = "makebook"
    /\ pc = "start"
    /\ Len(argv) >= 3
    /\ ~IsDir(argv[2])
    /\ printed' = Append(printed, [msg |-> "is not a directory", arg |-> argv[2]])
    /\ pc' = "exited"
    /\ exit_code' = 1
    /\ UNCHANGED <<script, argv, dir, listing, md_files, i, outfile, summary,
                   total_words, chapter_stats, chapters_html, pdf, engine_calls>>

\* lines 236-239 and 192-206: create_pdf lists the chapter files and exits
\* when there are none
CreatePdfStart ==
    /\ script = "makebook"
    /\ pc = "start"
    /\ Len(argv) >= 3
    /\ IsDir(argv[2])
    /\ md_files' = get_chapter_files(listing)
    /\ IF md_files' = <<>>
       THEN /\ printed' = printed \o
                   <<[msg |-> "Converting markdown files", arg |-> argv[2]],
                     [msg |-> "No markdown files found", arg |-> argv[2]]>>
            /\ pc' = "exited"
            /\ exit_code' = 1
       ELSE /\ printed' = printed
                 \o <<[msg |-> "Converting markdown files", arg |-> argv[2]],
                      [msg |-> "Found", n |-> Len(md_files')]>>
                 \o [k \in 1..Len(md_files') |-> [msg |-> "-", name |-> md_files'[k]]]
                 \o <<[msg |-> "Converting markdown to HTML"]>>
            /\ pc' = "convert"
            /\ UNCHANGED exit_code
    /\ i' = 0
    /\ chapters_html' = <<>>
    /\ UNCHANGED <<script, argv, dir, listing, outfile, summary, total_words,
                   chapter_stats, pdf, engine_calls>>

\* lines 172-185: one iteration of markdown_to_html's loop
ConvertChapter ==
    /\ script = "makebook"
    /\ pc = "convert"
    /\ i < Len(md_files)
    /\ dir[md_files[i + 1]] # Subdir
    /\ chapters_html' = Append(chapters_html, ChapterHtml(i + 1, md_files))
    /\ i' = i + 1
    /\ UNCHANGED <<script, argv, dir, listing, pc, md_files, outfile, printed,
                   summary, total_words, chapter_stats, pdf, engine_calls, exit_code>>

\* line 173: open() of an entry that cannot be read raises; nothing handles it
ConvertReadError ==
    /\ script = "makebook"
    /\ pc = "convert"
    /\ i < Len(md_files)
    /\ dir[md_files[i + 1]] = Subdir
    /\ pc' = "raised"
    /\ exit_code' = 1
    /\ UNCHANGED <<script, argv, dir, listing, md_files, i, outfile, printed,
                   summary, total_words, chapter_stats, chapters_html, pdf,
                   engine_calls>>

\* lines 187 and 210-220: the fragments are joined, set in the template and
\* handed to the PDF engine, which writes the file
GeneratePdf ==
    /\ script = "makebook"
    /\ pc = "convert"
    /\ i = Len(md_files)
    /\ pdf' = <<OutputPdf(argv[3]), HTML_TEMPLATE(JoinBlankLine(chapters_html))>>
    /\ engine_calls' = engine_calls + 1
    /\ printed' = printed \o <<[msg |-> "Generating PDF"],
                               [msg |-> "PDF book created", arg |-> OutputPdf(argv[3])],
                               [msg |-> "File size"]>>
    /\ pc' = "returned"
    /\ exit_code' = 0
    /\ UNCHANGED <<script, argv, dir, listing, md_files, i, outfile, summary,
                   total_words, chapter_stats, chapters_html>>

(***************************************************************************)
(* The specification: one run of one of the scripts.                       *)
(***************************************************************************)
Init == CollectorInit \/ EstimatorInit \/ RendererInit

Next ==
    \/ CombineStart
    \/ CombineWriteChapter
    \/ CombineReadError
    \/ CombineSummary
    \/ EstimateStart
    \/ EstimateCountFile
    \/ EstimateReadError
    \/ EstimateTotals
    \/ MainUsage
    \/ MainNotADirectory
    \/ CreatePdfStart
    \/ ConvertChapter
    \/ ConvertReadError
    \/ GeneratePdf

Spec == Init /\ [][Next]_vars

(***************************************************************************)
(* Properties.                                                             *)
(***************************************************************************)
\* p occurs in s at position k
OccursAt(s, p, k) ==
    /\ k + Len(p) - 1 <= Len(s)
    /\ \A j \in 1..Len(p) : s[k + j - 1] = p[j]

\* the number of positions of s at which p occurs
Occurrences(s, p) == Cardinality({k \in 1..Len(s) : OccursAt(s, p, k)})

\* the chapter files of the directory: the entries named *.md
MdNames == {n \in DOMAIN dir : EndsWith(n, MdSuffix)}

\* the chapter file names in lexicographic order
LexOrder(S) ==
    CHOOSE p \in Listings(S) :
        \A a, b \in 1..Cardinality(S) : a < b => StrLess(p[a], p[b])

RECURSIVE SumOver(_, _)
\* the sum of f[x] over the x of S
SumOver(f, S) ==
    IF S = {} THEN 0
    ELSE LET x == CHOOSE y \in S : TRUE IN f[x] + SumOver(f, S \ {x})

\* the occurrences in s of the header of any chapter file
HeaderOccurrences(s) ==
    SumOver([n \in MdNames |-> Occurrences(s, ChapterHeader(n))], MdNames)

RECURSIVE ExpectedCombined(_)
\* header, blank line and the file's own content for each file of the list
\* in turn, the separator between two chapters and nothing after the last
ExpectedCombined(files) ==
    IF files = <<>> THEN <<>>
    ELSE ChapterHeader(files[1]) \o dir[files[1]]
         \o (IF Len(files) > 1 THEN separator ELSE <<>>)
         \o ExpectedCombined(Tail(files))

\* the Collector ran to its end on a directory with at least one chapter
CombineDone ==
    /\ script = "combine"
    /\ pc = "returned"
    /\ MdNames # {}

\* C1: after the Collector's run on N >= 1 chapter files the output file is
\* exactly, in lexicographic filename order, each file's header line, a blank
\* line and the file's content, with the separator between two consecutive
\* chapters and nothing after the last
C1_OutputIsChaptersInOrder ==
    CombineDone => outfile = ExpectedCombined(LexOrder(MdNames))

NoContentHolds(c) == \A n \in MdNames : \A k \in 1..Len(dir[n]) : dir[n][k] # c
\* no chapter file name holds the character c
NoNameHolds(c) == \A n \in MdNames : \A k \in 1..Len(n) : n[k] # c

C3_ContentsPreservedByteForByte ==
    CombineDone =>
        \A n \in MdNames :
            \E k \in 1..Len(outfile) : OccursAt(outfile, ChapterHeader(n) \o dir[n], k)

\* C7: on a directory without any *.md file the Collector leaves the output
\* file as it was (not created, not overwritten), the Estimator prints no
\* table head, row or totals, and the run returns without raising
C7_NoChaptersNoOutput ==
    [][(script \in {"combine", "count"} /\ MdNames = {}) =>
          /\ outfile' = outfile
          /\ pc' = "returned"
          /\ exit_code' = 0
          /\ \A k \in 1..Len(printed') : printed'[k].msg = "No .md files found"]_vars

\* C7 witness: the Collector returned on a directory that holds a file but no
\* *.md file, and the output file that existed before still holds its bytes
C7_ReturnedWithoutChapters ==
    /\ script = "combine"
    /\ pc = "returned"
    /\ MdNames = {}
    /\ DOMAIN dir # {}
    /\ outfile = <<"o", "l", "d">>

\* the files the Estimator has counted, with the word count of each
Counted == {chapter_stats[k] : k \in 1..Len(chapter_stats)}

\* C8: a file that is one markdown link counts exactly the words of the link
\* text, and a file that is one markdown image counts no word, whatever the
\* alt text
C8_LinkTextCountedImageRemoved ==
    script = "count" =>
        \A row \in Counted :
            /\ \A n \in 1..MaxWords :
                  /\ dir[row[1]] = LinkTo(ProseRun(n)) => row[2] = n
                  /\ dir[row[1]] = ImageOf(ProseRun(n)) => row[2] = 0
            /\ dir[row[1]] = ImageOf(<<>>) => row[2] = 0

\* C9: a file that is a run of prose words wrapped in **, *, __ or _ counts
\* as many words as the bare run, which counts one per word
C9_EmphasisDoesNotChangeCount ==
    script = "count" =>
        \A row \in Counted : \A n \in 1..MaxWords : \A m \in EmphasisMarkers :
            dir[row[1]] = Emphasised(m, ProseRun(n)) =>
                /\ row[2] = count_words_in_markdown(ProseRun(n))
                /\ row[2] = n

\* C9 witness: the Estimator counted a file holding a bold run of MaxWords
\* words and a file holding the bare run, with the same count
C9_BoldAndBareCounted ==
    /\ script = "count"
    /\ pc = "returned"
    /\ \E r1, r2 \in Counted :
          /\ dir[r1[1]] = Emphasised(<<"*", "*">>, ProseRun(MaxWords))
          /\ dir[r2[1]] = ProseRun(MaxWords)
          /\ r1[2] = MaxWords
          /\ r2[2] = MaxWords

\* the value of a run of decimal digits
RECURSIVE NumberOf(_)
NumberOf(d) ==
    IF d = <<>> THEN 0
    ELSE 10 * NumberOf(SubSeq(d, 1, Len(d) - 1))
         + (CHOOSE v \in 0..9 : Digits[v + 1] = d[Len(d)])

AllDigits(d) == d # <<>> /\ \A k \in 1..Len(d) : d[k] \in Range(Digits)

\* the stems s1 and s2 are one text around one number each, the same text,
\* and the number of s1 is the smaller
SmallerEmbeddedNumber(s1, s2) ==
    \E a \in 0..Len(s1) : \E b \in (a + 1)..Len(s1) :
        LET before == SubSeq(s1, 1, a)
            after == SubSeq(s1, b + 1, Len(s1))
            d1 == SubSeq(s1, a + 1, b)
            d2 == SubSeq(s2, a + 1, Len(s2) - Len(after))
        IN  /\ Len(s2) >= a + 1 + Len(after)
            /\ SubSeq(s2, 1, a) = before
            /\ SubSeq(s2, Len(s2) - Len(after) + 1, Len(s2)) = after
            /\ AllDigits(d1) /\ AllDigits(d2)
            /\ (before = <<>> \/ before[Len(before)] \notin Range(Digits))
            /\ (after = <<>> \/ after[1] \notin Range(Digits))
            /\ NumberOf(d1) < NumberOf(d2)

\* the name without what follows its last dot
StemOfName(n) == SubSeq(n, 1, (CHOOSE k \in 1..Len(n) :
                                  n[k] = "." /\ \A j \in (k + 1)..Len(n) : n[j] # ".") - 1)

\* the Renderer has listed the chapter files
ChaptersListed ==
    /\ script = "makebook"
    /\ pc \in {"convert", "returned", "raised"}

\* C4: the Renderer's chapter list holds every *.md and *.markdown entry once,
\* in the order of the composite key (no file's key is less than the key of
\* a file before it), and of two files whose stems differ only in an embedded
\* number the one with the smaller number comes first
C4_ChaptersInNaturalOrder ==
    ChaptersListed =>
        /\ Range(md_files) = {n \in DOMAIN dir :
                                 EndsWith(n, MdSuffix) \/ EndsWith(n, MarkdownSuffix)}
        /\ Len(md_files) = Cardinality(Range(md_files))
        /\ \A a, b \in 1..Len(md_files) :
              a < b => ~KeyLess(NaturalSortKey(md_files[b]), NaturalSortKey(md_files[a]))
        /\ \A a, b \in 1..Len(md_files) :
              SmallerEmbeddedNumber(StemOfName(md_files[a]), StemOfName(md_files[b]))
                  => a < b

\* C4 witness: ch2.md and ch10.md were listed, ch2.md first
C4_Ch2BeforeCh10 ==
    /\ ChaptersListed
    /\ md_files = << <<"c", "h", "2", ".", "m", "d">>,
                     <<"c", "h", "1", "0", ".", "m", "d">> >>

\* the fragment holds a top-level heading element, with or without attributes
HasTopLevelHeading(html) ==
    \E k \in 1..Len(html) :
        \/ OccursAt(html, <<"<", "h", "1", ">">>, k)
        \/ OccursAt(html, <<"<", "h", "1", " ">>, k)

\* C5: the fragment emitted for the chapter at position k is the converted
\* fragment behind the synthesized heading 'Chapter k: Title' exactly when
\* the converted fragment has no top-level heading, and the converted
\* fragment unmodified otherwise
C5_HeadingSynthesizedWhenMissing ==
    script = "makebook" =>
        \A k \in 1..Len(chapters_html) :
            LET converted == Convert(TextRead(dir[md_files[k]]))
            IN  chapters_html[k] =
                    IF HasTopLevelHeading(converted)
                    THEN converted
                    ELSE SynthesizedHeading(k, md_files[k]) \o converted

\* one of the Renderer's preconditions fails
NoChapterFiles ==
    \A n \in DOMAIN dir : ~EndsWith(n, MdSuffix) /\ ~EndsWith(n, MarkdownSuffix)
RendererPreconditionFails ==
    \/ Len(argv) < 3
    \/ argv[2] # ChaptersPath
    \/ NoChapterFiles

\* C6: a run of the Renderer with fewer than two arguments, with an input
\* path that is no directory or with a directory without chapter files never
\* invokes the PDF engine and writes no PDF, and it ends, after one step, with
\* exit status 1 and a message, which names the directory in the directory cases
C6_PreconditionFailureExitsWithoutPdf ==
    (script = "makebook" /\ RendererPreconditionFails) =>
        /\ engine_calls = 0
        /\ pdf = NoFile
        /\ pc \in {"start", "exited"}
        /\ pc = "exited" =>
              /\ exit_code = 1
              /\ printed # <<>>
              /\ Len(argv) >= 3 =>
                    \E k \in 1..Len(printed) :
                        /\ printed[k].msg \in {"is not a directory",
                                               "No markdown files found"}
                        /\ printed[k].arg = argv[2]

\* C6 witness: the Renderer exited on a directory that holds a file but no
\* chapter file
C6_ExitedWithoutChapters ==
    /\ script = "makebook"
    /\ Len(argv) = 3
    /\ argv[2] = ChaptersPath
    /\ NoChapterFiles
    /\ DOMAIN dir # {}
    /\ pc = "exited"
    /\ exit_code = 1

\* the HTML document the Renderer assembles from a chapter list
RenderedHtml(files) ==
    HTML_TEMPLATE(JoinBlankLine([k \in 1..Len(files) |-> ChapterHtml(k, files)]))

\* C10: what a script produces is a function of the chapter files alone: in
\* whatever order the directory is listed, the Collector and the Estimator
\* work through the same chapter list and the Renderer hands the same HTML
\* document to the PDF engine
C10_OutputIndependentOfListing ==
    /\ (script \in {"combine", "count"} /\ pc # "start") =>
          \A L \in Listings(DOMAIN dir) : SortedPaths(Glob(L, MdSuffix)) = md_files
    /\ (script = "makebook" /\ pc = "returned") =>
          \A L \in Listings(DOMAIN dir) : RenderedHtml(get_chapter_files(L)) = pdf[2]
====
